---- MODULE Spec2Model ----
(***************************************************************************)
(* Model of the Pmf / Suite classes of PythonCounterPmf.ipynb.             *)
(*                                                                         *)
(* The heap is a sequence of objects; an object reference is its index     *)
(* (what id(self) returns).  Every object is a Counter subclass: a dict    *)
(* from keys to weights.  Weights are exact rationals <<n, d>> kept in     *)
(* lowest terms with d > 0, which is the "exact arithmetic" reading of     *)
(* the Python floats.  Keys of a Pmf are integers (die faces); keys of a   *)
(* DiceSuite are references to Pmf objects.                                *)
(*                                                                         *)
(* Spec is the dice problem: the list of dice and the DiceSuite over it    *)
(* exist, and the suite is updated and normalized.  SpecPmf is the Pmf     *)
(* arithmetic: the dice exist, further Pmfs are constructed, added and     *)
(* normalized.                                                             *)
(***************************************************************************)
EXTENDS Integers, Sequences, FiniteSets, TLC

VARIABLES heap, ctorKeys, pre, last, updates

vars == <<heap, ctorKeys, pre, last, updates>>

\* ---------------------------------------------------------------- bounds
NumDice  == 2    \* dice in the list the run starts with
MaxFace  == 2    \* most sides of a die
MaxUpdates == 3  \* bayesian_update calls in one run
MaxNew   == 1    \* Pmfs allocated after the dice
MaxKeys  == 3    \* keys of a Pmf built by +

Faces == 1..MaxFace
Data  == 1..(MaxFace + 1)

\* ------------------------------------------------------- exact arithmetic
Abs(x) == IF x < 0 THEN -x ELSE x

RECURSIVE GCD(_, _)
GCD(a, b) == IF b = 0 THEN a ELSE GCD(b, a % b)

\* the rational n/d in lowest terms, d # 0
Rat(n, d) ==
    LET g == GCD(Abs(n), Abs(d))
        s == IF d < 0 THEN -1 ELSE 1
    IN  <<(s * n) \div g, (s * d) \div g>>

Zero == <<0, 1>>
One  == <<1, 1>>

RAdd(x, y) == Rat(x[1] * y[2] + y[1] * x[2], x[2] * y[2])
RMul(x, y) == Rat(x[1] * y[1], x[2] * y[2])
\* x / y, only evaluated for y # Zero (Python raises ZeroDivisionError else)
RDiv(x, y) == Rat(x[1] * y[2], x[2] * y[1])
RLeq(x, y) == x[1] * y[2] <= y[1] * x[2]

\* all orders in which a dict with key set S may be iterated
RECURSIVE Orders(_)
Orders(S) ==
    IF S = {} THEN {<<>>}
    ELSE UNION {{<<x>> \o o : o \in Orders(S \ {x})} : x \in S}

\* one of them (ascending), for folds whose result does not depend on the order
RECURSIVE AnOrder(_)
AnOrder(S) ==
    IF S = {} THEN <<>>
    ELSE LET m == CHOOSE x \in S : \A y \in S : x <= y
         IN  <<m>> \o AnOrder(S \ {m})

RECURSIVE SumOver(_, _)
SumOver(d, order) ==
    IF order = <<>> THEN Zero
    ELSE RAdd(d[Head(order)], SumOver(d, Tail(order)))

\* sum(self.values())
Total(d) == SumOver(d, AnOrder(DOMAIN d))

EmptyDict == [k \in {} |-> Zero]

\* d with d[key] = val, the key inserted when absent
SetItem(d, key, val) ==
    IF key \in DOMAIN d THEN [d EXCEPT ![key] = val] ELSE d @@ (key :> val)

\* Counter.__missing__: a read of an absent key is 0 and stores nothing
CounterMissing(d, key) == [val |-> Zero, d |-> d]

\* d[key] on a Counter: the value read and the dict afterwards
GetItem(d, key) ==
    IF key \in DOMAIN d THEN [val |-> d[key], d |-> d]
    ELSE CounterMissing(d, key)

\* Counter(iterable) over integer values: each element counts 1 on top of what
\* its key holds, which is 0 for a key not yet there
RECURSIVE CounterOf(_)
CounterOf(iter) ==
    IF iter = <<>> THEN EmptyDict
    ELSE LET c == CounterOf(SubSeq(iter, 1, Len(iter) - 1))
             e == iter[Len(iter)]
         IN  IF e \in DOMAIN c THEN [c EXCEPT ![e] = RAdd(c[e], One)]
             ELSE SetItem(c, e, RAdd(Zero, One))

\* variant: a zero total is skipped silently instead of dividing by it
RECURSIVE normalize_loop_guarded(_, _, _)
normalize_loop_guarded(d, order, total) ==
    IF order = <<>> \/ Head(order) \notin DOMAIN d \/ total = Zero
    THEN [d |-> d, err |-> "none"]
    ELSE normalize_loop_guarded([d EXCEPT ![Head(order)] = RDiv(d[Head(order)], total)],
                                Tail(order), total)

\* variant: the divisor is recomputed from the half-normalized dict at every key
RECURSIVE normalize_loop_recompute(_, _, _)
normalize_loop_recompute(d, order, total) ==
    IF order = <<>> \/ Head(order) \notin DOMAIN d THEN [d |-> d, err |-> "none"]
    ELSE IF Total(d) = Zero THEN [d |-> d, err |-> "ZeroDivisionError"]
    ELSE normalize_loop_recompute(
             [d EXCEPT ![Head(order)] = RDiv(d[Head(order)], Total(d))],
             Tail(order), total)

\* ------------------------------------------------------------ Pmf.normalize
RECURSIVE normalize_loop(_, _, _)
normalize_loop(d, order, total) ==
    IF order = <<>> \/ Head(order) \notin DOMAIN d THEN [d |-> d, err |-> "none"]
    ELSE IF total = Zero THEN [d |-> d, err |-> "ZeroDivisionError"]
    ELSE normalize_loop([d EXCEPT ![Head(order)] = RDiv(d[Head(order)], total)],
                        Tail(order), total)

normalize(d, order) == normalize_loop(d, order, Total(d))

\* -------------------------------------------------------------- Pmf.__add__
\* variant: a colliding pair overwrites the entry instead of adding to it
RECURSIVE add_inner_overwrite(_, _, _, _, _)
add_inner_overwrite(pmf, key1, prob1, other, order2) ==
    IF order2 = <<>> THEN pmf
    ELSE LET key  == key1 + Head(order2)
             prod == RMul(prob1, other[Head(order2)])
         IN  IF key \in DOMAIN pmf
             THEN add_inner_overwrite([pmf EXCEPT ![key] = prod],
                                      key1, prob1, other, Tail(order2))
             ELSE add_inner_overwrite(SetItem(pmf, key, prod),
                                      key1, prob1, other, Tail(order2))

RECURSIVE add_inner(_, _, _, _, _)
\* for key2, prob2 in other.items(): pmf[key1 + key2] += prob1 * prob2, where
\* a key not yet in pmf reads as 0
add_inner(pmf, key1, prob1, other, order2) ==
    IF order2 = <<>> THEN pmf
    ELSE LET key  == key1 + Head(order2)
             prod == RMul(prob1, other[Head(order2)])
         IN  IF key \in DOMAIN pmf
             THEN add_inner([pmf EXCEPT ![key] = RAdd(pmf[key], prod)],
                            key1, prob1, other, Tail(order2))
             ELSE add_inner(SetItem(pmf, key, RAdd(Zero, prod)),
                            key1, prob1, other, Tail(order2))

RECURSIVE add_outer(_, _, _, _, _)
\* for key1, prob1 in self.items()
add_outer(pmf, self, order1, other, order2) ==
    IF order1 = <<>> \/ Head(order1) \notin DOMAIN self THEN pmf
    ELSE add_outer(add_inner(pmf, Head(order1), self[Head(order1)], other, order2),
                   self, Tail(order1), other, order2)

\* variant: the sums are accumulated into a copy of self instead of a fresh Pmf()
PmfAdd_into_self(self, other, order1, order2) ==
    add_outer(self, self, order1, other, order2)

PmfAdd(self, other, order1, order2) ==
    add_outer(EmptyDict, self, order1, other, order2)

\* ------------------------------------------------------------------- state
Refs == DOMAIN heap

NoOp == [op |-> "init", self |-> 0, other |-> 0, data |-> 0, arg |-> <<>>,
         err |-> "none", result |-> 0]

\* range(a, b+1) over the faces, the empty iterable of Pmf(), and a repeated face
Iterables ==
    {[i \in 1..(b - a + 1) |-> a + i - 1] : a \in Faces, b \in 0..MaxFace}
        \cup {<<a, a>> : a \in Faces}

Alloc(obj) ==
    /\ heap' = Append(heap, obj)
    /\ ctorKeys' = Append(ctorKeys, DOMAIN obj.d)

\* Pmf(iterable), and Pmf() for the empty iterable
NewPmf(iter) ==
    /\ Len(heap) < NumDice + MaxNew
    /\ Alloc([cls |-> "Pmf", d |-> CounterOf(iter)])
    /\ pre' = heap
    /\ last' = [NoOp EXCEPT !.op = "Pmf", !.arg = iter, !.result = Len(heap) + 1]
    /\ UNCHANGED updates

\* self.normalize() on any Pmf or Suite
Normalize(self) ==
    /\ \E order \in Orders(DOMAIN heap[self].d) :
         LET n == normalize(heap[self].d, order)
         IN  /\ heap' = [heap EXCEPT ![self].d = n.d]
             /\ last' = [NoOp EXCEPT !.op = "normalize", !.self = self, !.err = n.err]
    /\ pre' = heap
    /\ UNCHANGED <<ctorKeys, updates>>

\* the key set of self + other
SumKeys(a, b) == {k1 + k2 : k1 \in DOMAIN a, k2 \in DOMAIN b}

\* self + other on two Pmfs over numeric keys (self and other may be one object)
Add(self, other) ==
    /\ Len(heap) < NumDice + MaxNew
    /\ heap[self].cls = "Pmf" /\ heap[other].cls = "Pmf"
    /\ Cardinality(SumKeys(heap[self].d, heap[other].d)) <= MaxKeys
    /\ \E order1 \in Orders(DOMAIN heap[self].d), order2 \in Orders(DOMAIN heap[other].d) :
         Alloc([cls |-> "Pmf", d |-> PmfAdd(heap[self].d, heap[other].d, order1, order2)])
    /\ pre' = heap
    /\ last' = [NoOp EXCEPT !.op = "__add__", !.self = self, !.other = other,
                            !.result = Len(heap) + 1]
    /\ UNCHANGED updates

\* ------------------------------------------------- Pmf.__hash__ / Pmf.__eq__
\* return id(self)
PmfHash(h, self) == self

\* variant: the dict equality Counter would inherit without the override
PmfEq_by_value(h, self, other) == h[self].d = h[other].d

\* return self is other
PmfEq(h, self, other) == self = other

\* the keys of dict d that a lookup of elem finds: same hash, and identical or equal
DictFind(h, d, elem) ==
    {k \in DOMAIN d : /\ PmfHash(h, k) = PmfHash(h, elem)
                      /\ (k = elem \/ PmfEq(h, k, elem))}

\* Counter(iterable) over Pmf objects: DiceSuite(dice)
RECURSIVE SuiteCounterOf(_, _)
SuiteCounterOf(h, iter) ==
    IF iter = <<>> THEN EmptyDict
    ELSE LET c == SuiteCounterOf(h, SubSeq(iter, 1, Len(iter) - 1))
             e == iter[Len(iter)]
             m == DictFind(h, c, e)
         IN  IF m = {} THEN SetItem(c, e, One)
             ELSE LET k == CHOOSE x \in m : TRUE
                  IN  [c EXCEPT ![k] = RAdd(c[k], One)]

PmfRefs == {o \in Refs : heap[o].cls = "Pmf"}

\* make_die(num_sides): Pmf(range(1, num_sides+1)) followed by normalize()
make_die(num_sides) ==
    LET die == CounterOf([i \in 1..num_sides |-> i])
    IN  normalize(die, AnOrder(DOMAIN die)).d

\* dice = [make_die(x) for x in sides]
DiceHeap(sides) == [i \in DOMAIN sides |-> [cls |-> "Pmf", d |-> make_die(sides[i])]]

\* a Counter does not depend on the order of its iterable: sorted ones suffice
Sorted(q) == \A i, j \in DOMAIN q : i <= j => q[i] <= q[j]

\* the lists of sides the dice are made from
SideLists == {q \in [1..NumDice -> Faces] : Sorted(q)}

\* the lists of dice a suite is built from: any of the dice, repeats allowed
DiceLists == UNION {{q \in [1..n -> 1..NumDice] : Sorted(q)} : n \in 0..NumDice}

\* DiceSuite(dice) appended to the heap h that holds the dice
WithDiceSuite(h, dice) == Append(h, [cls |-> "DiceSuite", d |-> SuiteCounterOf(h, dice)])

\* ---------------------------------------------------- Suite.bayesian_update
\* variant: the read stores the missing face, as hypo.setdefault(data, 0) would
likelihood_setdefault(h, data, hypo) ==
    [like |-> GetItem(h[hypo].d, data).val,
     heap |-> [h EXCEPT ![hypo].d =
                  IF data \in DOMAIN h[hypo].d THEN h[hypo].d
                  ELSE SetItem(h[hypo].d, data, Zero)]]

\* DiceSuite.likelihood: return hypo[data]; the value and the heap afterwards
likelihood(h, data, hypo) ==
    LET g == GetItem(h[hypo].d, data)
    IN  [like |-> g.val, heap |-> [h EXCEPT ![hypo].d = g.d]]

\* variant: each weight is divided by the running total right after its multiplication
RECURSIVE update_loop_midnorm(_, _, _, _)
update_loop_midnorm(h, self, data, order) ==
    IF order = <<>> \/ Head(order) \notin DOMAIN h[self].d THEN h
    ELSE LET hypo == Head(order)
             like == GetItem(h[hypo].d, data).val
             h1   == [h EXCEPT ![self].d[hypo] = RMul(h[self].d[hypo], like)]
             t    == Total(h1[self].d)
             h2   == IF t = Zero THEN h1
                     ELSE [h1 EXCEPT ![self].d[hypo] = RDiv(h1[self].d[hypo], t)]
         IN  update_loop_midnorm(h2, self, data, Tail(order))

\* for hypo in self: like = self.likelihood(data, hypo); self[hypo] *= like
RECURSIVE update_loop(_, _, _, _)
update_loop(h, self, data, order) ==
    IF order = <<>> \/ Head(order) \notin DOMAIN h[self].d THEN h
    ELSE LET hypo == Head(order)
             r    == likelihood(h, data, hypo)
             h1   == r.heap
         IN  update_loop([h1 EXCEPT ![self].d[hypo] = RMul(h1[self].d[hypo], r.like)],
                         self, data, Tail(order))

\* variant: a failed normalize restores the weights the call started with
bayesian_update_rollback(h, self, data, order) ==
    LET h1 == update_loop(h, self, data, order)
        n  == normalize(h1[self].d, order)
    IN  IF n.err = "none" THEN [heap |-> [h1 EXCEPT ![self].d = n.d], err |-> n.err]
        ELSE [heap |-> h, err |-> n.err]

\* the loop over all hypotheses, then self.normalize()
bayesian_update(h, self, data, order) ==
    LET h1 == update_loop(h, self, data, order)
        n  == normalize(h1[self].d, order)
    IN  [heap |-> [h1 EXCEPT ![self].d = n.d], err |-> n.err]

BayesianUpdate(self, data) ==
    /\ updates < MaxUpdates
    /\ heap[self].cls = "DiceSuite"
    /\ \E order \in Orders(DOMAIN heap[self].d) :
         LET r == bayesian_update(heap, self, data, order)
         IN  /\ heap' = r.heap
             /\ last' = [NoOp EXCEPT !.op = "bayesian_update", !.self = self,
                                     !.data = data, !.err = r.err]
    /\ pre' = heap
    /\ updates' = updates + 1
    /\ UNCHANGED ctorKeys

\* the dice and dice_suite = DiceSuite(dice) have been constructed
Init ==
    /\ \E sides \in SideLists, dice \in DiceLists :
         /\ heap = WithDiceSuite(DiceHeap(sides), dice)
         /\ last = [NoOp EXCEPT !.op = "DiceSuite", !.arg = dice, !.result = NumDice + 1]
    /\ ctorKeys = [o \in DOMAIN heap |-> DOMAIN heap[o].d]
    /\ pre = SubSeq(heap, 1, NumDice)
    /\ updates = 0

Next ==
    \/ \E self \in Refs, data \in Data : BayesianUpdate(self, data)
    \/ \E self \in Refs : Normalize(self)

Spec == Init /\ [][Next]_vars

\* only the dice have been constructed
InitPmf ==
    /\ \E sides \in SideLists : heap = DiceHeap(sides)
    /\ ctorKeys = [o \in DOMAIN heap |-> DOMAIN heap[o].d]
    /\ pre = <<>>
    /\ last = NoOp
    /\ updates = 0

NextPmf ==
    \/ \E iter \in Iterables : NewPmf(iter)
    \/ \E self, other \in Refs : Add(self, other)
    \/ \E self \in Refs : Normalize(self)

SpecPmf == InitPmf /\ [][NextPmf]_vars

TypeOK == Len(heap) <= NumDice + MaxNew /\ updates <= MaxUpdates

\* ------------------------------------------------- vocabulary of the claims
\* the sum of the values of a finite function, independent of any iteration
RECURSIVE SumF(_)
SumF(f) ==
    IF DOMAIN f = {} THEN Zero
    ELSE LET k == CHOOSE x \in DOMAIN f : TRUE
         IN  RAdd(f[k], SumF([x \in (DOMAIN f) \ {k} |-> f[x]]))

\* P(data | hypo) in heap h: the face's weight, 0 for a face the die lacks
Like(h, data, hypo) ==
    IF data \in DOMAIN h[hypo].d THEN h[hypo].d[data] ELSE Zero

\* weight times likelihood of every hypothesis of suite s in heap h
Joint(h, s, data) == [x \in DOMAIN h[s].d |-> RMul(h[s].d[x], Like(h, data, x))]

AllZero(d) == \A k \in DOMAIN d : d[k] = Zero

Updated == last.op = "bayesian_update"

\* C1: a bayesian_update(data) whose joint total T is non-zero completes and
\* leaves every hypothesis h with weight w[h] * likelihood(data, h) / T, where w
\* are the weights before the call and T is the total of all the products.
PosteriorIsJointOverTotal ==
    (Updated /\ SumF(Joint(pre, last.self, last.data)) # Zero) =>
        /\ last.err = "none"
        /\ DOMAIN heap[last.self].d = DOMAIN pre[last.self].d
        /\ \A x \in DOMAIN pre[last.self].d :
             heap[last.self].d[x] =
                 RDiv(Joint(pre, last.self, last.data)[x],
                      SumF(Joint(pre, last.self, last.data)))

\* an update of two hypotheses with different non-zero likelihoods has completed
PosteriorWitness ==
    /\ Updated /\ last.err = "none"
    /\ \E x, y \in DOMAIN pre[last.self].d :
         /\ Like(pre, last.data, x) # Zero /\ Like(pre, last.data, y) # Zero
         /\ Like(pre, last.data, x) # Like(pre, last.data, y)
         /\ heap[last.self].d[x] # pre[last.self].d[x]

\* C2: a bayesian_update on a suite with at least one hypothesis, all of whose
\* likelihoods for the data are 0, ends in the division-by-zero error.
DegenerateUpdateRaises ==
    (/\ Updated
     /\ DOMAIN pre[last.self].d # {}
     /\ \A x \in DOMAIN pre[last.self].d : Like(pre, last.data, x) = Zero)
        => last.err = "ZeroDivisionError"

\* an update whose data every hypothesis excludes has run on a suite whose
\* prior weights were not all zero
DegenerateUpdateWitness ==
    /\ Updated
    /\ Cardinality(DOMAIN pre[last.self].d) >= 2
    /\ ~AllZero(pre[last.self].d)
    /\ \A x \in DOMAIN pre[last.self].d : Like(pre, last.data, x) = Zero

\* C3: normalize() raises the degenerate-distribution error whenever the total
\* weight is 0, the empty Pmf included.
NormalizeRaisesOnZeroTotal ==
    (last.op = "normalize" /\ SumF(pre[last.self].d) = Zero)
        => last.err = "ZeroDivisionError"

\* C5: after every normalize() or bayesian_update that completes without
\* error the weights sum to exactly 1 and each weight lies in [0, 1].
NormalizedSumsToOne ==
    (last.op \in {"normalize", "bayesian_update"} /\ last.err = "none") =>
        /\ SumF(heap[last.self].d) = One
        /\ \A k \in DOMAIN heap[last.self].d :
             RLeq(Zero, heap[last.self].d[k]) /\ RLeq(heap[last.self].d[k], One)

\* two updates in a row on suite s; the second is not reached when the first raises
UpdateTwice(h, s, d1, d2) ==
    LET o  == AnOrder(DOMAIN h[s].d)
        r1 == bayesian_update(h, s, d1, o)
    IN  IF r1.err # "none" THEN r1 ELSE bayesian_update(r1.heap, s, d2, o)

Suites == {s \in Refs : heap[s].cls = "DiceSuite"}

\* C4: for every suite and observations d1, d2, updating with d1 then d2 fails
\* exactly when updating with d2 then d1 fails, and when both complete they
\* leave the same weights.
UpdateOrderIrrelevant ==
    \A s \in Suites : \A d1, d2 \in Data :
        LET a == UpdateTwice(heap, s, d1, d2)
            b == UpdateTwice(heap, s, d2, d1)
        IN  /\ (a.err = "none") <=> (b.err = "none")
            /\ (a.err = "none") => a.heap[s].d = b.heap[s].d

\* a suite that a completed update has left with unequal weights, on which
\* both orders of one pair complete with different intermediate weights and
\* both orders of another pair fail, one at its second update and the other at
\* its first
UpdateOrderWitness ==
    \E s \in Suites :
        /\ Updated /\ last.self = s /\ last.err = "none"
        /\ \E x, y \in DOMAIN heap[s].d :
             heap[s].d[x] # heap[s].d[y] /\ heap[s].d[x] # Zero /\ heap[s].d[y] # Zero
        /\ \E d1, d2 \in Data :
             LET o == AnOrder(DOMAIN heap[s].d)
             IN  /\ UpdateTwice(heap, s, d1, d2).err = "none"
                 /\ bayesian_update(heap, s, d1, o).heap[s].d
                      # bayesian_update(heap, s, d2, o).heap[s].d
        /\ \E d1, d2 \in Data :
             /\ bayesian_update(heap, s, d1, AnOrder(DOMAIN heap[s].d)).err = "none"
             /\ bayesian_update(heap, s, d2, AnOrder(DOMAIN heap[s].d)).err
                    = "ZeroDivisionError"
             /\ UpdateTwice(heap, s, d1, d2).err = "ZeroDivisionError"

\* the weight of key k in the distribution of the sum: all pairs adding up to k
Conv(a, b, k) ==
    SumF([p \in {q \in (DOMAIN a) \X (DOMAIN b) : q[1] + q[2] = k}
             |-> RMul(a[p[1]], b[p[2]])])

\* C6: a + b is a new Pmf whose keys are exactly the sums k1 + k2, whose weight
\* at k is the sum of a[k1] * b[k2] over the pairs with k1 + k2 = k, and whose
\* total is total(a) * total(b); the operands are left as they were.
AddIsConvolution ==
    last.op = "__add__" =>
        LET a == pre[last.self].d
            b == pre[last.other].d
            r == heap[last.result].d
        IN  /\ last.result \notin DOMAIN pre
            /\ \A o \in DOMAIN pre : heap[o] = pre[o]
            /\ DOMAIN r = SumKeys(a, b)
            /\ \A k \in DOMAIN r : r[k] = Conv(a, b, k)
            /\ SumF(r) = RMul(SumF(a), SumF(b))

\* an instance has been added to itself and two pairs collided on one key
AddWitness ==
    /\ last.op = "__add__" /\ last.self = last.other
    /\ \E k1, k2 \in DOMAIN pre[last.self].d :
         /\ k1 # k2
         /\ heap[last.result].d[k1 + k2]
              = RMul(<<2, 1>>, RMul(pre[last.self].d[k1], pre[last.self].d[k2]))
         /\ heap[last.result].d[k1 + k2] # Zero

Plus(a, b) == PmfAdd(a, b, AnOrder(DOMAIN a), AnOrder(DOMAIN b))

\* three fair dice of n sides, grouped to the left and to the right
ThreeDiceLeft(n)  == Plus(Plus(make_die(n), make_die(n)), make_die(n))
ThreeDiceRight(n) == Plus(make_die(n), Plus(make_die(n), make_die(n)))

\* either grouping of three n-sided dice has support exactly 3..3n
ThreeDiceAgree ==
    \A n \in Faces :
        /\ DOMAIN ThreeDiceLeft(n) = 3..(3 * n)
        /\ ThreeDiceLeft(n) = ThreeDiceRight(n)

\* the key/weight contents of the Pmfs in heap h
Contents(h) == {h[o].d : o \in {x \in DOMAIN h : h[x].cls = "Pmf"}}

\* the contents that the last call brought into the heap
Fresh == Contents(heap) \ Contents(pre)

\* C7: + is commutative and associative on key/weight content, and three fair
\* dice of n sides have support exactly 3..3n in either grouping.  Every pair
\* and triple of contents is compared in the state in which its last member
\* appears.
AddCommutesAndAssociates ==
    /\ \A a, b \in Contents(heap) :
         (a \in Fresh \/ b \in Fresh) => Plus(a, b) = Plus(b, a)
    /\ \A a, b, c \in Contents(heap) :
         (a \in Fresh \/ b \in Fresh \/ c \in Fresh)
             => Plus(Plus(a, b), c) = Plus(a, Plus(b, c))
    /\ ThreeDiceAgree

\* + has just built a Pmf, and three Pmfs of pairwise different content exist,
\* one of them with two keys or more
AddAlgebraWitness ==
    /\ last.op = "__add__"
    /\ \E a, b \in PmfRefs :
         /\ heap[a].d # heap[b].d
         /\ heap[a].d # heap[last.result].d /\ heap[b].d # heap[last.result].d
         /\ Cardinality(DOMAIN heap[a].d) >= 2 /\ DOMAIN heap[b].d # {}

\* number of positions of sequence q that hold x
Occurrences(q, x) == Cardinality({i \in DOMAIN q : q[i] = x})

\* C8: equality and hash of Pmf instances are by identity: a == b iff a is b,
\* distinct instances hash differently whatever their content, no operation
\* changes either, and a suite built from a list of dice has one entry per
\* instance of the list, weighted by how often that instance occurs.
IdentityEquality ==
    /\ \A a, b \in Refs :
         /\ PmfEq(heap, a, b) <=> (a = b)
         /\ (a # b) => PmfHash(heap, a) # PmfHash(heap, b)
    /\ \A a, b \in DOMAIN pre :
         /\ PmfHash(heap, a) = PmfHash(pre, a)
         /\ PmfEq(heap, a, b) = PmfEq(pre, a, b)
    /\ last.op = "DiceSuite" =>
         /\ DOMAIN heap[last.result].d = {last.arg[i] : i \in DOMAIN last.arg}
         /\ \A x \in DOMAIN heap[last.result].d :
              heap[last.result].d[x] = <<Occurrences(last.arg, x), 1>>

\* a suite has just been built from two distinct dice of identical content
IdentityWitness ==
    /\ last.op = "DiceSuite"
    /\ \E x, y \in DOMAIN heap[last.result].d :
         x # y /\ heap[x].d = heap[y].d /\ DOMAIN heap[x].d # {}

\* C9: whatever updates have run, completed or failed, every suite holds the
\* hypotheses it was constructed with and every Pmf the keys it was
\* constructed with; evaluating a likelihood stores no key.
HypothesesOnlyReweighted ==
    \A o \in Refs : DOMAIN heap[o].d = ctorKeys[o]

\* an update has read a face that a hypothesis lacks and left that hypothesis
\* in the suite with weight 0
ReweightWitness ==
    /\ Updated /\ last.err = "none"
    /\ \E x \in DOMAIN heap[last.self].d :
         /\ last.data \notin DOMAIN heap[x].d
         /\ pre[last.self].d[x] # Zero
         /\ heap[last.self].d[x] = Zero

\* C10: a bayesian_update that fails on a non-empty suite leaves every weight
\* 0; an update of a non-empty suite whose weights are all 0 fails; and a
\* hypothesis of weight 0 still has weight 0 after any update.
FailedUpdateIsNotRolledBack ==
    Updated =>
        /\ (last.err # "none" /\ DOMAIN pre[last.self].d # {})
               => AllZero(heap[last.self].d)
        /\ (AllZero(pre[last.self].d) /\ DOMAIN pre[last.self].d # {})
               => last.err = "ZeroDivisionError"
        /\ \A x \in DOMAIN pre[last.self].d :
               pre[last.self].d[x] = Zero => heap[last.self].d[x] = Zero

\* an update with data that some hypothesis allows has failed on a suite that
\* an earlier failure had left all zero
FailedUpdateWitness ==
    /\ Updated /\ last.err = "ZeroDivisionError"
    /\ Cardinality(DOMAIN pre[last.self].d) >= 2
    /\ AllZero(pre[last.self].d)
    /\ \E x \in DOMAIN pre[last.self].d : Like(pre, last.data, x) # Zero
====
